---- MODULE Spec2Model ----
(***************************************************************************)
(* Model of the spell checker: WordCounter (src/src/word_counter.rs), the  *)
(* line sanitizer (src/src/main.rs) and SpellChecker                       *)
(* (src/src/spell_checker.rs).                                             *)
(*                                                                         *)
(* A string is a sequence of characters; a character is its code point     *)
(* (97 = 'a', 65 = 'A', 32 = ' ', 10 = '\n', 49 = '1', 45 = '-').  The     *)
(* byte order of UTF-8 strings is the order of their code points, so       *)
(* String::cmp is the lexicographic order on these sequences.              *)
(***************************************************************************)
EXTENDS Integers, Sequences, FiniteSets, TLC

VARIABLES words_map, alphabet, adds, ret

vars == <<words_map, alphabet, adds, ret>>

(***************************************************************************)
(* Bounds of the model.                                                    *)
(***************************************************************************)
MaxTextLen == 3
MaxItemLen == 2
MaxAdds == 3
MaxCorpusWords == 3
MaxWordLen == 3
MaxCorpusWordLen == 1

\* all strings over the characters cs of length lo..hi
StringsOver(cs, lo, hi) == UNION { [1..n -> cs] : n \in lo..hi }

\* characters of the texts given to from_str: a, A, space, line feed, digit 1
TextChars == {97, 65, 32, 10, 49}
Texts == StringsOver(TextChars, 0, MaxTextLen)

\* characters of the items given to add: a, A, space
ItemChars == {97, 65, 32}
Items == StringsOver(ItemChars, 0, MaxItemLen)

\* letters of the spell checker's words: a, b
Letters == {97, 98}
Words == StringsOver(Letters, 0, MaxWordLen)
Alphabets == {<<>>, <<97>>, <<97, 98>>}

\* the corpora of the spell checker: up to MaxCorpusWords words of letters,
\* separated by spaces
RECURSIVE join(_)
join(ws) ==
    IF ws = <<>> THEN <<>>
    ELSE IF Len(ws) = 1 THEN Head(ws)
    ELSE Head(ws) \o <<32>> \o join(Tail(ws))

Corpora ==
    { join(ws) : ws \in StringsOver(StringsOver(Letters, 1, MaxCorpusWordLen),
                                    0, MaxCorpusWords) }

Range(s) == { s[i] : i \in 1..Len(s) }

(***************************************************************************)
(* Characters and strings (std).                                           *)
(***************************************************************************)
is_whitespace(c) == c \in {9, 10, 11, 12, 13, 32}

is_alphabetic(c) == c \in (65..90) \cup (97..122)

char_to_lowercase(c) == IF c \in 65..90 THEN c + 32 ELSE c

to_lowercase(s) == [i \in 1..Len(s) |-> char_to_lowercase(s[i])]

RECURSIVE trim_start(_)
trim_start(s) ==
    IF s # <<>> /\ is_whitespace(Head(s)) THEN trim_start(Tail(s)) ELSE s

RECURSIVE trim_end(_)
trim_end(s) ==
    IF s # <<>> /\ is_whitespace(s[Len(s)])
    THEN trim_end(SubSeq(s, 1, Len(s) - 1))
    ELSE s

\* mutant of trim: only the leading whitespace is removed
trim_start_only(s) == trim_start(s)

trim(s) == trim_end(trim_start(s))

\* Ordering of a.cmp(b) on strings: -1 Less, 0 Equal, 1 Greater
RECURSIVE cmp(_, _)
cmp(a, b) ==
    IF a = <<>> /\ b = <<>> THEN 0
    ELSE IF a = <<>> THEN -1
    ELSE IF b = <<>> THEN 1
    ELSE IF Head(a) < Head(b) THEN -1
    ELSE IF Head(a) > Head(b) THEN 1
    ELSE cmp(Tail(a), Tail(b))

\* str::lines: split at line feeds, a carriage return before one is dropped,
\* no final empty line
RECURSIVE lines(_)
lines(input) ==
    IF input = <<>> THEN <<>>
    ELSE LET nls == { i \in 1..Len(input) : input[i] = 10 }
         IN IF nls = {} THEN <<input>>
            ELSE LET nl == CHOOSE i \in nls : \A j \in nls : i <= j
                     line == SubSeq(input, 1, nl - 1)
                     stripped == IF line # <<>> /\ line[Len(line)] = 13
                                 THEN SubSeq(line, 1, Len(line) - 1)
                                 ELSE line
                 IN <<stripped>> \o lines(SubSeq(input, nl + 1, Len(input)))

\* str::split_whitespace: the maximal runs of non-whitespace characters
RECURSIVE split_whitespace(_)
split_whitespace(line) ==
    LET s == trim_start(line)
    IN IF s = <<>> THEN <<>>
       ELSE LET ws == { i \in 1..Len(s) : is_whitespace(s[i]) }
                end == IF ws = {} THEN Len(s) + 1
                       ELSE CHOOSE i \in ws : \A j \in ws : i <= j
            IN <<SubSeq(s, 1, end - 1)>>
               \o split_whitespace(SubSeq(s, end, Len(s)))

\* the possible iteration orders of a hash set or of a hash map's keys
iter(S) ==
    { v \in [1..Cardinality(S) -> S] :
        \A i, j \in 1..Cardinality(S) : i # j => v[i] # v[j] }

\* mutant of sort_unstable: the comparison is reversed (b.cmp(a))
sort_unstable_reversed(v) == SortSeq(v, LAMBDA a, b : cmp(a, b) > 0)

\* slice::sort_unstable_by(|a, b| a.cmp(b))
sort_unstable(v) == SortSeq(v, LAMBDA a, b : cmp(a, b) < 0)

(***************************************************************************)
(* main.rs                                                                 *)
(***************************************************************************)
is_valid_symbol(c) ==
    \/ c = 45
    \/ c = 39
    \/ is_alphabetic(c)
    \/ is_whitespace(c)

clean_line(input) == SelectSeq(input, is_valid_symbol)

(***************************************************************************)
(* word_counter.rs                                                         *)
(***************************************************************************)
\* WordCounter::new: the empty map
new == [w \in {} |-> 0]

to_words(line) == split_whitespace(line)

\* mutant of add: the count is set to 1 instead of incremented
add_sets_one(m, item) ==
    LET word == to_lowercase(trim(item))
        entry == IF word \in DOMAIN m THEN m ELSE m @@ (word :> 0)
    IN [entry EXCEPT ![word] = 1]

\* WordCounter::add on the map m
add(m, item) ==
    LET word == to_lowercase(trim(item))
        entry == IF word \in DOMAIN m THEN m ELSE m @@ (word :> 0)
    IN [entry EXCEPT ![word] = @ + 1]

\* the words the loop of from_str iterates over
RECURSIVE flat_words(_)
flat_words(ls) ==
    IF ls = <<>> THEN <<>>
    ELSE to_words(clean_line(Head(ls))) \o flat_words(Tail(ls))

RECURSIVE add_each(_, _)
add_each(m, ws) ==
    IF ws = <<>> THEN m ELSE add_each(add(m, Head(ws)), Tail(ws))

from_str(input) == add_each(new, flat_words(lines(input)))

get(m, word) == IF word \in DOMAIN m THEN m[word] ELSE 0

RECURSIVE sum(_, _)
sum(m, keys) ==
    IF keys = {} THEN 0
    ELSE LET k == CHOOSE k \in keys : TRUE
         IN m[k] + sum(m, keys \ {k})

total_count(m) == sum(m, DOMAIN m)

\* WordCounter::words: the possible results (one per iteration order)
words(m) == { sort_unstable(v) : v \in iter(DOMAIN m) }

(***************************************************************************)
(* spell_checker.rs                                                        *)
(***************************************************************************)
\* Option<T>: None, or Some(x)
None == <<>>
Some(x) == <<x>>

\* SpellChecker::new
SpellChecker_new(corpus, alpha) == [corpus |-> from_str(corpus), alphabet |-> alpha]

drop_leading_chars(n, s) ==
    IF Len(s) > n THEN SubSeq(s, n + 1, Len(s)) ELSE <<>>

\* mutant of splits_of: the split (word, "") is missing
splits_without_end(word) ==
    [i \in 1..Len(word) |-> <<SubSeq(word, 1, i - 1), SubSeq(word, i, Len(word))>>]

\* the splits of edits1: one (left, right) per character, then (word, "")
splits_of(word) ==
    [i \in 1..Len(word) |-> <<SubSeq(word, 1, i - 1), SubSeq(word, i, Len(word))>>]
    \o << <<word, <<>> >> >>

\* iterator map over a sequence
Map(s, f(_)) == [i \in 1..Len(s) |-> f(s[i])]

\* iterator flat_map of a sequence over the characters of the alphabet,
\* split-major as the nested iterators yield
FlatMapAlphabet(s, f(_, _)) ==
    [k \in 1..(Len(s) * Len(alphabet)) |->
        f(s[((k - 1) \div Len(alphabet)) + 1],
          alphabet[((k - 1) % Len(alphabet)) + 1])]

single_deletes(splits) ==
    Map(SelectSeq(splits, LAMBDA sp : sp[2] # <<>>),
        LAMBDA sp : sp[1] \o drop_leading_chars(1, sp[2]))

\* mutant of adjacent_transposes: the two characters are not swapped
transposes_without_swap(splits) ==
    Map(SelectSeq(splits, LAMBDA sp : Len(sp[2]) > 1),
        LAMBDA sp : sp[1] \o <<sp[2][1]>> \o <<sp[2][2]>>
                    \o drop_leading_chars(2, sp[2]))

\* mutant of adjacent_transposes: the last two characters are never swapped
transposes_need_three(splits) ==
    Map(SelectSeq(splits, LAMBDA sp : Len(sp[2]) > 2),
        LAMBDA sp : sp[1] \o <<sp[2][2]>> \o <<sp[2][1]>>
                    \o drop_leading_chars(2, sp[2]))

adjacent_transposes(splits) ==
    Map(SelectSeq(splits, LAMBDA sp : Len(sp[2]) > 1),
        LAMBDA sp : sp[1] \o <<sp[2][2]>> \o <<sp[2][1]>>
                    \o drop_leading_chars(2, sp[2]))

single_replaces(splits) ==
    FlatMapAlphabet(SelectSeq(splits, LAMBDA sp : sp[2] # <<>>),
        LAMBDA sp, c : sp[1] \o <<c>> \o drop_leading_chars(1, sp[2]))

single_inserts(splits) ==
    FlatMapAlphabet(splits, LAMBDA sp, c : sp[1] \o <<c>> \o sp[2])

edits1(word) ==
    LET splits == splits_of(word)
        deletes == single_deletes(splits)
        inserts == single_inserts(splits)
        replaces == single_replaces(splits)
        transposes == adjacent_transposes(splits)
    IN Range(deletes \o inserts \o replaces \o transposes)

edits2(word) == UNION { edits1(e1) : e1 \in edits1(word) }

\* SpellChecker::known: the possible vectors, one per iteration order of the
\* hash set
known(ws) == iter({ word \in ws : get(words_map, word) > 0 })

\* the closure known_words of candidates: the possible results
known_words(edits) ==
    { IF v # <<>> THEN Some(sort_unstable(v)) ELSE None : v \in known(edits) }

\* mutant of candidates: the final fallback is the empty vector
candidates_without_fallback(word) ==
    UNION { IF k0 # None THEN {k0[1]}
            ELSE UNION { IF k1 # None THEN {k1[1]}
                         ELSE { IF k2 # None THEN k2[1] ELSE <<>> :
                                k2 \in known_words(edits2(word)) } :
                         k1 \in known_words(edits1(word)) } :
            k0 \in known_words({word}) }

\* mutant of candidates: the word itself is not looked up first
candidates_without_exact(word) ==
    UNION { IF k1 # None THEN {k1[1]}
            ELSE { IF k2 # None THEN k2[1] ELSE <<word>> :
                   k2 \in known_words(edits2(word)) } :
            k1 \in known_words(edits1(word)) }

\* SpellChecker::candidates: the possible results; or_else and unwrap_or_else
\* evaluate their closure only on None
candidates(word) ==
    UNION { IF k0 # None THEN {k0[1]}
            ELSE UNION { IF k1 # None THEN {k1[1]}
                         ELSE { IF k2 # None THEN k2[1] ELSE <<word>> :
                                k2 \in known_words(edits2(word)) } :
                         k1 \in known_words(edits1(word)) } :
            k0 \in known_words({word}) }

\* SpellChecker::probability, as the exact quotient <<numerator, denominator>>;
\* <<0, 1>> is 0.0
probability(word) ==
    IF total_count(words_map) > 0
    THEN <<get(words_map, word), total_count(words_map)>>
    ELSE <<0, 1>>

\* f64::partial_cmp: None when an operand is NaN (0.0 / 0.0)
partial_cmp(p, q) ==
    IF (p[1] = 0 /\ p[2] = 0) \/ (q[1] = 0 /\ q[2] = 0) THEN None
    ELSE IF p[1] * q[2] < q[1] * p[2] THEN Some(-1)
    ELSE IF p[1] * q[2] > q[1] * p[2] THEN Some(1)
    ELSE Some(0)

Ok(x) == [ok |-> TRUE, val |-> x]
Panic(msg) == [ok |-> FALSE, val |-> msg]

\* mutant of max_by_fold: the left element is kept on Equal too (first maximum)
RECURSIVE max_by_first_wins(_, _)
max_by_first_wins(x, rest) ==
    IF rest = <<>> THEN [ok |-> TRUE, val |-> <<x>>]
    ELSE LET y == Head(rest)
             c == partial_cmp(probability(x), probability(y))
         IN IF c = None
            THEN [ok |-> FALSE, val |-> "called Option::unwrap() on a None value"]
            ELSE max_by_first_wins(IF c[1] >= 0 THEN x ELSE y, Tail(rest))

\* Iterator::max_by with the comparison of correction: reduce, keeping the
\* left element only when it compares Greater
RECURSIVE max_by_fold(_, _)
max_by_fold(x, rest) ==
    IF rest = <<>> THEN Ok(Some(x))
    ELSE LET y == Head(rest)
             c == partial_cmp(probability(x), probability(y))
         IN IF c = None THEN Panic("called Option::unwrap() on a None value")
            ELSE max_by_fold(IF c[1] = 1 THEN x ELSE y, Tail(rest))

max_by(v) == IF v = <<>> THEN Ok(None) ELSE max_by_fold(Head(v), Tail(v))

\* SpellChecker::correction on one result of candidates
correction_of(cands) ==
    LET m == max_by(cands)
    IN IF ~m.ok THEN m
       ELSE IF m.val = None THEN Panic("candidates returned empty range")
       ELSE Ok(m.val[1])

\* SpellChecker::correction: the possible outcomes
correction(word) == { correction_of(c) : c \in candidates(word) }

(***************************************************************************)
(* The word counter as a state machine: a counter is made by new (Init) or  *)
(* by from_str (which starts from new), then add is called on it.          *)
(***************************************************************************)
InitCounter ==
    /\ words_map = new
    /\ alphabet = <<>>
    /\ adds = 0
    /\ ret = [op |-> "new", word |-> <<>>, val |-> <<>>]

Add(item) ==
    /\ adds < MaxAdds
    /\ words_map' = add(words_map, item)
    /\ adds' = adds + 1
    /\ ret' = [op |-> "add", word |-> item, val |-> <<>>]
    /\ UNCHANGED alphabet

FromStr(input) ==
    /\ ret.op = "new"
    /\ words_map' = from_str(input)
    /\ adds' = Len(flat_words(lines(input)))
    /\ ret' = [op |-> "from_str", word |-> input, val |-> <<>>]
    /\ UNCHANGED alphabet

NextCounter ==
    \/ \E item \in Items : Add(item)
    \/ \E input \in Texts : FromStr(input)

SpecCounter == InitCounter /\ [][NextCounter]_vars

(***************************************************************************)
(* The spell checker as a state machine: constructed by SpellChecker::new, *)
(* then queried by a sequential caller: a call is made, ret holds the call, *)
(* its argument and its result, and the caller takes the result (Return)   *)
(* before its next call.                                                   *)
(***************************************************************************)
Init ==
    \E corpus \in Corpora, alpha \in Alphabets :
        /\ words_map = SpellChecker_new(corpus, alpha).corpus
        /\ alphabet = SpellChecker_new(corpus, alpha).alphabet
        /\ adds = Len(flat_words(lines(corpus)))
        /\ ret = [op |-> "new", word |-> <<>>, val |-> <<>>]

Candidates(word) ==
    /\ ret.op = "new"
    /\ \E r \in candidates(word) :
           ret' = [op |-> "candidates", word |-> word, val |-> r]
    /\ UNCHANGED <<words_map, alphabet, adds>>

Correction(word) ==
    /\ ret.op = "new"
    /\ \E r \in correction(word) :
           ret' = [op |-> "correction", word |-> word, val |-> r]
    /\ UNCHANGED <<words_map, alphabet, adds>>

Edits1(word) ==
    /\ ret.op = "new"
    /\ ret' = [op |-> "edits1", word |-> word, val |-> edits1(word)]
    /\ UNCHANGED <<words_map, alphabet, adds>>

Edits2(word) ==
    /\ ret.op = "new"
    /\ ret' = [op |-> "edits2", word |-> word, val |-> edits2(word)]
    /\ UNCHANGED <<words_map, alphabet, adds>>

Return ==
    /\ ret.op # "new"
    /\ ret' = [op |-> "new", word |-> <<>>, val |-> <<>>]
    /\ UNCHANGED <<words_map, alphabet, adds>>

Next ==
    \/ \E word \in Words : Candidates(word)
    \/ \E word \in Words : Correction(word)
    \/ \E word \in Words : Edits1(word)
    \/ \E word \in Words : Edits2(word)
    \/ Return

Spec == Init /\ [][Next]_vars

(***************************************************************************)
(* The properties, stated from the definitions of the operations and not   *)
(* from the operators above.                                               *)
(***************************************************************************)
\* a is before b in the lexicographic order of code points
LexLess(a, b) ==
    \E k \in 1..(Len(b)) :
        /\ k <= Len(a) + 1
        /\ \A i \in 1..(k - 1) : a[i] = b[i]
        /\ (k = Len(a) + 1 \/ a[k] < b[k])

\* v lists exactly the elements of S, each once, in ascending order
IsAscendingListOf(v, S) ==
    /\ Len(v) = Cardinality(S)
    /\ Range(v) = S
    /\ \A i, j \in 1..Len(v) : i < j => LexLess(v[i], v[j])

count(w) == IF w \in DOMAIN words_map THEN words_map[w] ELSE 0

\* the four kinds of single edits of w at its split points 0..Len(w)
DeleteSet(w) ==
    { SubSeq(w, 1, i) \o SubSeq(w, i + 2, Len(w)) : i \in 0..(Len(w) - 1) }

InsertSet(w, A) ==
    { SubSeq(w, 1, i) \o <<c>> \o SubSeq(w, i + 1, Len(w)) :
        i \in 0..Len(w), c \in A }

ReplaceSet(w, A) ==
    { SubSeq(w, 1, i) \o <<c>> \o SubSeq(w, i + 2, Len(w)) :
        i \in 0..(Len(w) - 1), c \in A }

TransposeSet(w) ==
    { SubSeq(w, 1, i) \o <<w[i + 2], w[i + 1]>> \o SubSeq(w, i + 3, Len(w)) :
        i \in 0..(Len(w) - 2) }

Edits1Set(w) ==
    DeleteSet(w) \cup InsertSet(w, Range(alphabet))
    \cup ReplaceSet(w, Range(alphabet)) \cup TransposeSet(w)

Edits2Set(w) == UNION { Edits1Set(e) : e \in Edits1Set(w) }

Known(S) == { e \in S : count(e) > 0 }

\* C1: candidates(w) is never empty, and correction(w) does not fail and
\* returns an element of candidates(w)
C1_CandidatesNonEmpty ==
    /\ ret.op = "candidates" => Len(ret.val) >= 1
    /\ ret.op = "correction" =>
         /\ ret.val.ok
         /\ \A c \in candidates(ret.word) : ret.val.val \in Range(c)

C1_Witness ==
    /\ ret.op = "correction"
    /\ words_map = new
    /\ alphabet = <<>>
    /\ ret.word = <<>>
    /\ ret.val.ok
    /\ ret.val.val = <<>>

\* C2: a word with a count greater than 0 is its own only candidate
C2_KnownWordIsOnlyCandidate ==
    (ret.op = "candidates" /\ count(ret.word) > 0) => ret.val = <<ret.word>>

C2_Witness ==
    /\ ret.op = "candidates"
    /\ count(ret.word) > 0
    /\ Known(Edits1Set(ret.word)) \ {ret.word} # {}
    /\ ret.val = <<ret.word>>

\* C3: for a word of count 0, candidates is the known words of edits1 in
\* ascending order if there are any, else the known words of edits2 in
\* ascending order if there are any, else the word alone
C3_StagedFallback ==
    (ret.op = "candidates" /\ count(ret.word) = 0) =>
        LET k1 == Known(Edits1Set(ret.word))
            k2 == Known(Edits2Set(ret.word))
        IN IF k1 # {} THEN IsAscendingListOf(ret.val, k1)
           ELSE IF k2 # {} THEN IsAscendingListOf(ret.val, k2)
           ELSE ret.val = <<ret.word>>

\* stage 1 answers while edits2 knows one more word
C3_Witness ==
    /\ ret.op = "candidates"
    /\ count(ret.word) = 0
    /\ Len(ret.val) >= 1
    /\ Known(Edits2Set(ret.word)) \ Known(Edits1Set(ret.word)) # {}
    /\ Range(ret.val) = Known(Edits1Set(ret.word))

\* stage 2 answers
C3_WitnessStage2 ==
    /\ ret.op = "candidates"
    /\ count(ret.word) = 0
    /\ Known(Edits1Set(ret.word)) = {}
    /\ Range(ret.val) = Known(Edits2Set(ret.word))
    /\ Len(ret.val) >= 2

\* nothing within two edits is known
C3_WitnessFallback ==
    /\ ret.op = "candidates"
    /\ words_map # new
    /\ Known(Edits2Set(ret.word) \cup {ret.word}) = {}
    /\ ret.val = <<ret.word>>

\* C4: correction returns a candidate of maximal count, and among those of
\* maximal count the last in lexicographic order
C4_MaxCountLastWins ==
    ret.op = "correction" =>
        /\ ret.val.ok
        /\ \A cs \in candidates(ret.word) :
             /\ ret.val.val \in Range(cs)
             /\ \A c \in Range(cs) :
                  /\ count(c) <= count(ret.val.val)
                  /\ count(c) = count(ret.val.val) =>
                       (c = ret.val.val \/ LexLess(c, ret.val.val))

\* a tie between two candidates
C4_Witness ==
    /\ ret.op = "correction"
    /\ ret.val.ok
    /\ \E cs \in candidates(ret.word) :
         \E c \in Range(cs) :
            /\ c # ret.val.val
            /\ count(c) = count(ret.val.val)
            /\ LexLess(c, ret.val.val)

\* the most frequent candidate is not the last one
C4_WitnessMax ==
    /\ ret.op = "correction"
    /\ ret.val.ok
    /\ \E cs \in candidates(ret.word) :
         \E c \in Range(cs) :
            /\ count(c) < count(ret.val.val)
            /\ LexLess(ret.val.val, c)

\* C5: edits1(word) is exactly the deletes, inserts, replaces and transposes
\* of word at its split points; for the empty word, the one-character strings
\* of the alphabet
C5_Edits1IsUnionOfFourSets ==
    ret.op = "edits1" =>
        /\ ret.val = Edits1Set(ret.word)
        /\ ret.word = <<>> => ret.val = { <<c>> : c \in Range(alphabet) }

C5_Witness ==
    /\ ret.op = "edits1"
    /\ Len(ret.word) >= 2
    /\ Len(alphabet) >= 2
    /\ DeleteSet(ret.word) \cap ret.val # {}
    /\ TransposeSet(ret.word) \cap ret.val # {}
    /\ Cardinality(ret.val) >= 8

\* C6 as claimed: edits2(word) contains word, for every word and alphabet
C6_Edits2ContainsWord ==
    ret.op = "edits2" => ret.word \in ret.val

\* C6 as amended: edits2(word) contains word exactly when the alphabet is
\* not empty or word has at least two characters
C6_Edits2ContainsWordAmended ==
    ret.op = "edits2" =>
        (ret.word \in ret.val <=> (alphabet # <<>> \/ Len(ret.word) >= 2))

C6_Witness ==
    /\ ret.op = "edits2"
    /\ alphabet = <<>>
    /\ Len(ret.word) >= 2
    /\ ret.word \in ret.val

\* C7: total_count is the number of adds performed and the sum of the counts
\* of the words of the vocabulary; from_str adds once per whitespace-delimited
\* token of the sanitized corpus; the empty counter has total_count 0
TokenCount(text) ==
    Cardinality({ i \in 1..Len(text) :
                    /\ ~is_whitespace(text[i])
                    /\ (i = 1 \/ is_whitespace(text[i - 1])) })

RECURSIVE SumOfCounts(_)
SumOfCounts(voc) ==
    IF voc = <<>> THEN 0 ELSE count(Head(voc)) + SumOfCounts(Tail(voc))

C7_TotalCountIsNumberOfAdds ==
    /\ total_count(words_map) = adds
    /\ \A voc \in words(words_map) : total_count(words_map) = SumOfCounts(voc)
    /\ ret.op = "from_str" =>
         total_count(words_map) = TokenCount(SelectSeq(ret.word, is_valid_symbol))
    /\ ret.op = "new" => total_count(words_map) = 0

C7_Witness ==
    /\ ret.op = "add"
    /\ adds >= 3
    /\ Cardinality(DOMAIN words_map) = 2
    /\ total_count(words_map) = 3

C7_WitnessFromStr ==
    /\ ret.op = "from_str"
    /\ adds = 2
    /\ Cardinality(DOMAIN words_map) = 1

\* C8: add(item) increments by 1 the count of item trimmed and lowercased,
\* and changes no other count
IsKeyOf(key, item) ==
    \E i, j \in 0..Len(item) :
        /\ i + j <= Len(item)
        /\ \A k \in 1..i : item[k] \in {9, 10, 11, 12, 13, 32}
        /\ \A k \in (Len(item) - j + 1)..Len(item) : item[k] \in {9, 10, 11, 12, 13, 32}
        /\ LET core == SubSeq(item, i + 1, Len(item) - j)
           IN /\ core # <<>> =>
                   /\ core[1] \notin {9, 10, 11, 12, 13, 32}
                   /\ core[Len(core)] \notin {9, 10, 11, 12, 13, 32}
              /\ Len(key) = Len(core)
              /\ \A k \in 1..Len(core) :
                   key[k] = IF core[k] \in 65..90 THEN core[k] + 32 ELSE core[k]

C8_AddIncrementsOneEntry ==
    [][\A item \in Items :
         Add(item) =>
           \E key \in DOMAIN words_map' :
              /\ IsKeyOf(key, item)
              /\ words_map'[key] = count(key) + 1
              /\ \A w \in (DOMAIN words_map \cup DOMAIN words_map') \ {key} :
                   /\ w \in DOMAIN words_map
                   /\ w \in DOMAIN words_map'
                   /\ words_map'[w] = words_map[w]]_vars

\* ' A' was added to a counter that holds 'a' and another word
C8_Witness ==
    /\ ret.op = "add"
    /\ ret.word = <<32, 65>>
    /\ count(<<97>>) >= 2
    /\ Cardinality(DOMAIN words_map) >= 2

\* C9 as claimed: with an empty alphabet, edits1(w) never contains w
C9_Edits1ExcludesWord ==
    (ret.op = "edits1" /\ alphabet = <<>>) => ret.word \notin ret.val

\* C9 as amended: with an empty alphabet, edits1(w) contains w exactly when
\* two adjacent characters of w are equal (their transpose is w)
C9_Edits1ExcludesWordAmended ==
    (ret.op = "edits1" /\ alphabet = <<>>) =>
        (ret.word \in ret.val <=>
            \E i \in 1..(Len(ret.word) - 1) : ret.word[i] = ret.word[i + 1])

\* edits1("aa") with the empty alphabet is {"a", "aa"}
C9_Witness ==
    /\ ret.op = "edits1"
    /\ alphabet = <<>>
    /\ ret.word = <<97, 97>>
    /\ ret.val = { <<97>>, <<97, 97>> }

\* edits1("ab") with the empty alphabet is {"a", "b", "ba"}
C9_WitnessDistinct ==
    /\ ret.op = "edits1"
    /\ alphabet = <<>>
    /\ ret.word = <<97, 98>>
    /\ ret.val = { <<97>>, <<98>>, <<98, 97>> }

\* C10: every key of the counter is a non-empty word
C10_KeysNonEmpty ==
    \A key \in DOMAIN words_map : key # <<>>

====
